---- MODULE Spec2Model ----
(***************************************************************************)
(* Model of mcp-hq's ConnectionPool (lib/connection-pool.ts): the map of   *)
(* pooled connections, the closing flag, and the async methods getClient,  *)
(* createConnection, reconnect, close and closeAll.  Every async method is *)
(* cut at its await points: the code between two awaits is one action, and *)
(* the continuations of different calls interleave freely.  The protocol   *)
(* client and its transport are the environment: a connect attempt         *)
(* resolves or rejects, a transport reports an error or its closing.       *)
(* Around the pool: runServer's cleanup on SIGINT / SIGTERM (server.ts),    *)
(* the list_tools, describe_tool and call_tool handlers with the schemas   *)
(* of lib/mcp.ts, and list_mcp_servers with its limiter (tools.ts).        *)
(***************************************************************************)
EXTENDS Integers, FiniteSets, Sequences, Bags, TLC

\* ---------------------------------------------------------------- bounds
\* calls of the pool's methods that are suspended at an await at one time
MaxInFlight == 3
\* client/transport pairs built over a run
MaxClients == 2

\* getClient calls issued over a run in which their order is followed
MaxCalls == 4
\* providers in the configuration that list_mcp_servers enumerates
NumProviders == 7
\* calls of the pool's methods over a run in which every call is followed to
\* its end
MaxIssued == 3

\* ------------------------------------------------------ program constants
maxAttempts == 3
delayMs == 1000
backoffMultiplier == 2
\* list_mcp_servers: pLimit(5)
concurrency == 5

\* config.mcpServers: the configured provider names; "c" is a name that is
\* not configured.
ServerNames == {"a", "b"}
AllNames == ServerNames \cup {"c"}
\* Object.keys(config.mcpServers): the configured names in the order of the
\* configuration file
ConfigKeys == <<"a", "b">>

Clients == 1..MaxClients
None == 0

VARIABLES
    connections,    \* Map<string, PooledConnection>: name -> record id or None
    closing,        \* the pool's closing flag
    conn,           \* the PooledConnection records ever built, by id
    clientState,    \* the protocol client of each record, as the SDK sees it
    allocated,      \* number of records (client/transport pairs) built so far
    tasks,          \* bag of the calls suspended at an await
    ret,            \* the call that returned (or threw) in this step, if any
    onlyGets,       \* history: no method but getClient has been called so far
    sinceConnected, \* history: reconnect attempts since the name last reached connected
    drained,        \* history: a closeAll call has run to completion
    sequential,     \* history: no two reconnect calls for the name have overlapped
                    \*          since the name last reached connected
    server,         \* the McpServer of runServer: "open" or "closed"
    exit,           \* <<>> while the process runs, <<code>> once process.exit(code) ran
    provider,       \* what each provider answers to tools/list: its raw tool list
    request,        \* the list_tools / describe_tool / call_tool request being handled
    response,       \* what the handler handed back for the last request
    listed,         \* history: the names list_tools returned for the provider's
                    \*          present tool list, <<>> if it has not been listed
    fetches,        \* list_mcp_servers: the limiter's task of each provider
    listing,        \* list_mcp_servers: the handler's call
    calls,          \* getClient calls issued so far, numbered in call order
    reactions,      \* per record: the calls awaiting its connectPromise, in the
                    \*             order in which they started to await it
    jobs,           \* the microtask queue: continuations ready to run, in order
    completed,      \* the getClient calls that have returned or thrown, in order
    rejection,      \* list_mcp_servers: the entry whose task was the first to
                    \*                   reject (what Promise.all rejects with), 0 if none
    listResult,     \* list_mcp_servers: what the handler handed back
    issued          \* the calls made to the pool's methods so far, counted in
                    \* the runs in which their number is bounded

\* the tool handlers registered on the server (tools.ts)
toolsLayer == <<provider, request, response, listed, fetches, listing,
                rejection, listResult>>

\* list_mcp_servers: the outcome of Promise.all and of the handler
listOut == <<rejection, listResult>>

\* the state of the process outside the pool
\* getClient calls with the order of their continuations
ordering == <<calls, reactions, jobs, completed>>

outside == <<server, exit, toolsLayer, ordering>>

\* the pool and its history
pool == <<connections, closing, conn, clientState, allocated, tasks, ret,
          onlyGets, sinceConnected, drained, sequential, issued>>

vars == <<connections, closing, conn, clientState, allocated, tasks, ret,
          onlyGets, sinceConnected, drained, sequential, outside, issued>>

\* PooledConnection; client and transport are the record's own id.
NoConn == [status |-> "none", connectPromise |-> "none", reconnectAttempts |-> 0,
           server |-> "none", origin |-> "none"]

\* A call: its method and argument, where it is suspended, its local conn,
\* the status it found at the call, and (history) whether it was issued before
\* any connect attempt for the name had settled and any other method was called.
NoTask == [op |-> "none", name |-> "none", pc |-> "none", conn |-> None,
           old |-> None, seen |-> "none", early |-> FALSE, delay |-> 0,
           k |-> 0, pend |-> {}]

\* What a call hands back to its caller: the value or error, with the call's
\* method, conn, seen and early.
NoRet == [op |-> "none", conn |-> None, seen |-> "none", early |-> FALSE,
          result |-> <<"none", 0>>, message |-> ""]

\* ------------------------------------------------- data of the tools layer
\* Tools as a provider's tools/list result carries them (the SDK has checked
\* them against its Tool schema, so inputSchema.type is "object").  An optional
\* field that is not there is "absent"; title is a field of the protocol that
\* the schemas of lib/mcp.ts do not name.  Tool3 has the name of Tool1.
Tool1 == [name |-> "t1", description |-> "d1", inputSchema |-> "object",
          outputSchema |-> "absent", annotations |-> "absent", title |-> "T"]
Tool2 == [name |-> "t2", description |-> "absent", inputSchema |-> "object",
          outputSchema |-> "object", annotations |-> "hints", title |-> "absent"]
Tool3 == [name |-> "t1", description |-> "d3", inputSchema |-> "object",
          outputSchema |-> "object", annotations |-> "absent", title |-> "absent"]

\* the tool lists a provider may have
ToolLists == {<<>>, <<Tool1>>, <<Tool1, Tool2>>, <<Tool2, Tool1>>, <<Tool1, Tool3>>}

\* tool names a request may carry; "t9" is the name of no tool
ToolNames == {"t1", "t2", "t9"}

\* Results of tools/call as the SDK's client hands them over; _meta is a field
\* of the protocol that mcpCallToolResultSchema does not name.
CallResults ==
    {[content |-> "blocks", structuredContent |-> "absent", isError |-> "absent",
      meta |-> "absent"],
     [content |-> "blocks", structuredContent |-> "absent", isError |-> "true",
      meta |-> "m"],
     [content |-> "empty", structuredContent |-> "data", isError |-> "false",
      meta |-> "absent"],
     [content |-> "blocks", structuredContent |-> "data", isError |-> "true",
      meta |-> "absent"]}

\* A request to one of the tool handlers, from its arrival to its response:
\* where the handler is suspended, and the value or error it will hand back.
\* output holds the handler's output object, raw (history) what the provider
\* answered.
NoRequest == [tool |-> "none", server_name |-> "none", tool_name |-> "none",
              pc |-> "idle", kind |-> "none", error |-> "none", message |-> "",
              output |-> <<>>, raw |-> <<>>]

\* Object.entries(config.mcpServers) of a configuration with NumProviders
\* providers, by position
Entries == 1..NumProviders

\* the name of an entry: its key in config.mcpServers
EntryKey(p) == "p" \o ToString(p)

\* what list_mcp_servers hands back: its output (the servers) or the error
\* it throws
NoResult == [kind |-> "none", error |-> <<"none", 0>>, servers |-> <<>>]

Init ==
    /\ connections = [n \in ServerNames |-> None]
    /\ closing = FALSE
    /\ conn = [c \in Clients |-> NoConn]
    /\ clientState = [c \in Clients |-> "none"]
    /\ allocated = 0
    /\ tasks = EmptyBag
    /\ ret = NoRet
    /\ onlyGets = TRUE
    /\ sinceConnected = [n \in ServerNames |-> 0]
    /\ drained = FALSE
    /\ sequential = [n \in ServerNames |-> TRUE]
    /\ server = "open"
    /\ exit = <<>>
    /\ provider = [n \in ServerNames |-> <<Tool1, Tool2>>]
    /\ request = NoRequest
    /\ response = NoRequest
    /\ listed = [n \in ServerNames |-> <<>>]
    /\ fetches = [p \in Entries |-> "none"]
    /\ listing = "idle"
    /\ calls = 0
    /\ reactions = [c \in Clients |-> <<>>]
    /\ jobs = <<>>
    /\ completed = <<>>
    /\ rejection = 0
    /\ listResult = NoResult
    /\ issued = 0

\* ------------------------------------------------------------- helpers
\* Object.keys(config.mcpServers) holds the name (getClient line 35-36).
Configured(serverName) == serverName \in ServerNames

\* Array.prototype.join
RECURSIVE Join(_, _)
\* variant: only the first element is written
JoinFirstOnly(keys, sep) == IF keys = <<>> THEN "" ELSE keys[1]

Join(keys, sep) ==
    IF keys = <<>> THEN ""
    ELSE IF Len(keys) = 1 THEN keys[1]
    ELSE keys[1] \o sep \o Join(Tail(keys), sep)

\* the message of the error thrown for a name that is not configured
\* (getClient lines 37-39; tools.ts lines 139-141, 183-185, 230-232)
NotFoundMessage(serverName) ==
    "MCP server \"" \o serverName
        \o "\" not found in configuration. Available servers: "
        \o Join(ConfigKeys, ", ")

\* this.connections.get(serverName)
Lookup(serverName) ==
    IF Configured(serverName) THEN connections[serverName] ELSE None

\* variant: the flag refuses a call only when the map holds no record
PoolIsClosingAndEmpty == closing /\ \A n \in ServerNames : connections[n] = None

\* variant: the closing flag is not consulted
PoolNeverClosing == FALSE

\* getClient line 31: if (this.closing)
PoolIsClosing == closing

\* variant: a record that is still connecting is not reused
NeedsCreateWhilePending(c) == c = None \/ conn[c].status \in {"closed", "connecting"}

\* variant: a closed record is reused
NeedsCreateOnlyWhenAbsent(c) == c = None

\* variant: a connected record is not reused
NeedsCreateWhenConnected(c) == c = None \/ conn[c].status \in {"closed", "connected"}

\* getClient line 45: !conn || conn.status === "closed"
NeedsCreate(c) == c = None \/ conn[c].status = "closed"

\* getClient line 50 / 55: conn.status === s && conn.connectPromise
Awaits(c, s) == conn[c].status = s /\ conn[c].connectPromise # "none"

\* reconnect line 126: conn.reconnectAttempts >= RECONNECT_OPTIONS.maxAttempts
ReachedMax(attempts) == attempts >= maxAttempts

\* reconnect line 135-137: delayMs * backoffMultiplier ** (attempts - 1)
Delay(attempts) == delayMs * backoffMultiplier ^ (attempts - 1)

\* What the SDK's client.close() does to a client, from the moment it is called:
\* a client still connecting is torn down and its connect can only reject; a
\* connected one is closing until its transport reports onclose.
CloseInvoked(s) ==
    CASE s = "connecting" -> "closed"
      [] s = "connected" -> "closing"
      [] OTHER -> s

InFlight == BagToSet(tasks)

\* a client/transport pair can still be built within the bound
CanBuild == allocated < MaxClients
CanSuspend == BagCardinality(tasks) < MaxInFlight

\* The record is still held by the map or by a suspended call.  A record
\* nothing holds is garbage no code reads again; a handler's write to it is
\* not represented.
Referenced(c) ==
    \/ \E n \in ServerNames : connections[n] = c
    \/ \E r \in InFlight : r.conn = c

\* variant: an awaiting call is resumed by a resolution only
SettledWhenResolved(c) == conn[c].connectPromise = "resolved"

Settled(c) == conn[c].connectPromise \in {"resolved", "rejected"}

\* connect attempts started for a provider (every record built starts one)
Attempts(serverName) == {c \in Clients : conn[c].server = serverName}

\* createConnection, up to its await (lines 62-114): build the pair, start
\* client.connect inside connectPromise, publish the record in the map.
CreateConnection(serverName, by, map) ==
    LET c == allocated + 1 IN
    /\ conn' = [conn EXCEPT ![c] = [status |-> "connecting",
                                    connectPromise |-> "pending",
                                    reconnectAttempts |-> 0,
                                    server |-> serverName,
                                    origin |-> by]]
    /\ clientState' = [clientState EXCEPT ![c] = "connecting"]
    /\ connections' = [map EXCEPT ![serverName] = c]
    /\ allocated' = c

\* this.connections.delete(serverName)
Delete(map, serverName) == [map EXCEPT ![serverName] = None]

\* the process runs, and the value handed back by the previous step has been
\* taken by its caller
Ready == exit = <<>> /\ ret = NoRet

\* a call suspends at an await / moves to its next await / returns or throws
Suspend(r) == CanSuspend /\ tasks' = tasks (+) SetToBag({r}) /\ ret' = NoRet
Move(r, r2) == tasks' = (tasks (-) SetToBag({r})) (+) SetToBag({r2}) /\ ret' = NoRet
Returned(r, res) ==
    [op |-> r.op, conn |-> r.conn, seen |-> r.seen, early |-> r.early,
     result |-> res,
     message |-> IF res[1] = "NotFound" THEN NotFoundMessage(r.name) ELSE ""]
Return(r, res) ==
    /\ tasks' = tasks (-) SetToBag({r})
    /\ ret' = Returned(r, res)
ReturnAtOnce(r, res) ==
    /\ tasks' = tasks
    /\ ret' = Returned(r, res)

\* ------------------------------------------------------------ getClient
\* getClient lines 30-60, from the call to its first await or its return.
GetClient(serverName) ==
    /\ Ready
    /\ UNCHANGED <<drained, sequential, outside>>
    /\ UNCHANGED <<closing, onlyGets, sinceConnected>>
    /\ LET c == Lookup(serverName)
           base == [NoTask EXCEPT !.op = "getClient", !.name = serverName,
                       !.seen = IF c = None THEN "none" ELSE conn[c].status,
                       !.early = /\ Configured(serverName)
                                 /\ onlyGets
                                 /\ \A x \in Attempts(serverName) : ~Settled(x)]
       IN
       IF PoolIsClosing THEN
           /\ ReturnAtOnce(base, <<"PoolClosing", 0>>)
           /\ UNCHANGED <<connections, conn, clientState, allocated>>
       ELSE IF ~Configured(serverName) THEN
           /\ ReturnAtOnce(base, <<"NotFound", 0>>)
           /\ UNCHANGED <<connections, conn, clientState, allocated>>
       ELSE IF NeedsCreate(c) THEN
           /\ CanBuild
           /\ CreateConnection(serverName, "getClient", connections)
           /\ Suspend([base EXCEPT !.pc = "gcCreate", !.conn = allocated + 1])
       ELSE
           /\ IF Awaits(c, "connecting")
              THEN Suspend([base EXCEPT !.pc = "gc51", !.conn = c])
              ELSE IF Awaits(c, "reconnecting")
              THEN Suspend([base EXCEPT !.pc = "gc55", !.conn = c])
              ELSE ReturnAtOnce([base EXCEPT !.conn = c], <<"client", c>>)
           /\ UNCHANGED <<connections, conn, clientState, allocated>>

\* getClient resumes after an await of conn.connectPromise (line 46 through
\* createConnection's line 114, line 51, line 55): a rejection is thrown to the
\* caller, otherwise the remaining checks run and conn.client is returned.
GetClientResume(r) ==
    /\ Ready
    /\ UNCHANGED <<drained, sequential, outside, issued>>
    /\ r.pc \in {"gcCreate", "gc51", "gc55"}
    /\ Settled(r.conn)
    /\ IF conn[r.conn].connectPromise = "rejected" THEN
           Return(r, <<"ConnectError", r.conn>>)
       ELSE IF r.pc = "gcCreate" /\ Awaits(r.conn, "connecting") THEN
           Move(r, [r EXCEPT !.pc = "gc51"])
       ELSE IF r.pc # "gc55" /\ Awaits(r.conn, "reconnecting") THEN
           Move(r, [r EXCEPT !.pc = "gc55"])
       ELSE
           Return(r, <<"client", r.conn>>)
    /\ UNCHANGED <<connections, closing, conn, clientState, allocated,
                   onlyGets, sinceConnected>>

\* ------------------------------------------- connectPromise (lines 92-111)
\* client.connect resolved: the async block sets the status and installs the
\* transport handlers.
ConnectOk(c) ==
    /\ Ready
    /\ UNCHANGED <<drained, outside, issued>>
    /\ sequential' = [sequential EXCEPT ![conn[c].server] = TRUE]
    /\ conn[c].connectPromise = "pending"
    /\ clientState[c] = "connecting"
    /\ conn' = [conn EXCEPT ![c].status = "connected",
                            ![c].connectPromise = "resolved"]
    /\ clientState' = [clientState EXCEPT ![c] = "connected"]
    /\ sinceConnected' = [sinceConnected EXCEPT ![conn[c].server] = 0]
    /\ ret' = NoRet
    /\ UNCHANGED <<connections, closing, allocated, tasks, onlyGets>>

\* variant: the catch block marks the record closed but leaves it in the map
ConnectFailKeepsRecord(c) ==
    /\ Ready
    /\ UNCHANGED <<drained, sequential, outside, issued>>
    /\ conn[c].connectPromise = "pending"
    /\ conn' = [conn EXCEPT ![c].status = "closed",
                            ![c].connectPromise = "rejected"]
    /\ clientState' = [clientState EXCEPT ![c] = "closed"]
    /\ ret' = NoRet
    /\ UNCHANGED <<connections, closing, allocated, tasks, onlyGets,
                   sinceConnected>>

\* client.connect rejected: the catch block (lines 106-110).
ConnectFail(c) ==
    /\ Ready
    /\ UNCHANGED <<drained, sequential, outside, issued>>
    /\ conn[c].connectPromise = "pending"
    /\ conn' = [conn EXCEPT ![c].status = "closed",
                            ![c].connectPromise = "rejected"]
    /\ connections' = Delete(connections, conn[c].server)
    /\ clientState' = [clientState EXCEPT ![c] = "closed"]
    /\ ret' = NoRet
    /\ UNCHANGED <<closing, allocated, tasks, onlyGets, sinceConnected>>

\* transport.onerror (lines 98-101): the transport reports an error; the
\* handler only marks the record.
TransportError(c) ==
    /\ Ready
    /\ UNCHANGED <<drained, sequential, outside, issued>>
    /\ clientState[c] \in {"connected", "closing"}
    /\ conn[c].status # "closed"
    /\ Referenced(c)
    /\ conn' = [conn EXCEPT ![c].status = "closed"]
    /\ ret' = NoRet
    /\ UNCHANGED <<connections, closing, clientState, allocated, tasks,
                   onlyGets, sinceConnected>>

\* transport.onclose (lines 103-105): the transport has closed.
TransportClose(c) ==
    /\ Ready
    /\ UNCHANGED <<drained, sequential, outside, issued>>
    /\ clientState[c] \in {"connected", "closing"}
    /\ conn' = IF Referenced(c) THEN [conn EXCEPT ![c].status = "closed"] ELSE conn
    /\ clientState' = [clientState EXCEPT ![c] = "closed"]
    /\ ret' = NoRet
    /\ UNCHANGED <<connections, closing, allocated, tasks,
                   onlyGets, sinceConnected>>

\* ------------------------------------------------------------ reconnect
\* history: a reconnect call for the name is suspended at one of its awaits
Reconnecting(serverName) ==
    \E r \in InFlight : r.op = "reconnect" /\ r.name = serverName

\* variant: the attempt is counted and the status set before the bound is checked
ReconnectCountsFirst(serverName) ==
    /\ Ready
    /\ UNCHANGED <<drained, sequential, outside>>
    /\ UNCHANGED <<connections, closing, clientState, allocated>>
    /\ onlyGets' = FALSE
    /\ LET c == Lookup(serverName)
           base == [NoTask EXCEPT !.op = "reconnect", !.name = serverName,
                                  !.conn = c]
       IN
       IF c = None THEN
           /\ ReturnAtOnce(base, <<"void", 0>>)
           /\ UNCHANGED <<conn, sinceConnected>>
       ELSE
           /\ conn' = [conn EXCEPT ![c].status = "reconnecting",
                                   ![c].reconnectAttempts = @ + 1]
           /\ sinceConnected' = [sinceConnected EXCEPT ![serverName] = @ + 1]
           /\ IF ReachedMax(conn[c].reconnectAttempts + 1)
              THEN ReturnAtOnce(base, <<"MaxReconnect", 0>>)
              ELSE Suspend([base EXCEPT !.pc = "rcDelay",
                              !.delay = Delay(conn[c].reconnectAttempts + 1),
                              !.k = sinceConnected[serverName] + 1])

\* reconnect lines 119-139, from the call to the await of the backoff timer.
Reconnect(serverName) ==
    /\ Ready
    /\ UNCHANGED <<drained, outside>>
    /\ UNCHANGED <<connections, closing, clientState, allocated>>
    /\ onlyGets' = FALSE
    /\ LET c == Lookup(serverName)
           base == [NoTask EXCEPT !.op = "reconnect", !.name = serverName,
                                  !.conn = c]
       IN
       IF c = None THEN
           /\ ReturnAtOnce(base, <<"void", 0>>)
           /\ UNCHANGED <<conn, sinceConnected, sequential>>
       ELSE IF ReachedMax(conn[c].reconnectAttempts) THEN
           /\ ReturnAtOnce(base, <<"MaxReconnect", 0>>)
           /\ UNCHANGED <<conn, sinceConnected, sequential>>
       ELSE
           /\ conn' = [conn EXCEPT ![c].status = "reconnecting",
                                   ![c].reconnectAttempts = @ + 1]
           /\ Suspend([base EXCEPT !.pc = "rcDelay",
                          !.delay = Delay(conn[c].reconnectAttempts + 1),
                          !.k = sinceConnected[serverName] + 1])
           /\ sinceConnected' = [sinceConnected EXCEPT ![serverName] = @ + 1]
           /\ sequential' = [sequential EXCEPT
                                ![serverName] = @ /\ ~Reconnecting(serverName)]

\* The backoff timer fires (line 139); the old client's close is called (143).
ReconnectTimer(r) ==
    /\ Ready
    /\ UNCHANGED <<drained, sequential, outside, issued>>
    /\ r.pc = "rcDelay"
    /\ clientState' = [clientState EXCEPT ![r.conn] = CloseInvoked(@)]
    /\ Move(r, [r EXCEPT !.pc = "rcClose", !.delay = 0, !.k = 0])
    /\ UNCHANGED <<connections, closing, conn, allocated, onlyGets,
                   sinceConnected>>

\* variant: a rejection of the old client's close ends the reconnect call
ReconnectRebuildRethrows(r, ok) ==
    /\ Ready
    /\ UNCHANGED <<drained, sequential, outside, issued>>
    /\ r.pc = "rcClose"
    /\ CanBuild
    /\ IF ok
       THEN /\ CreateConnection(r.name, "reconnect", Delete(connections, r.name))
            /\ Move(r, [r EXCEPT !.pc = "rcCreate", !.old = r.conn,
                                 !.conn = allocated + 1])
       ELSE /\ Return(r, <<"CloseError", r.conn>>)
            /\ UNCHANGED <<connections, conn, clientState, allocated>>
    /\ UNCHANGED <<closing, onlyGets, sinceConnected>>

\* The old client's close has settled, resolved (ok) or rejected, and the
\* rejection is swallowed (lines 142-146); the record is deleted and a new one
\* created (lines 149-150, up to line 114).
ReconnectRebuild(r, ok) ==
    /\ Ready
    /\ UNCHANGED <<drained, sequential, outside, issued>>
    /\ r.pc = "rcClose"
    /\ CanBuild
    /\ CreateConnection(r.name, "reconnect", Delete(connections, r.name))
    /\ Move(r, [r EXCEPT !.pc = "rcCreate", !.old = r.conn,
                         !.conn = allocated + 1])
    /\ UNCHANGED <<closing, onlyGets, sinceConnected>>

\* createConnection's await (line 114) has settled; reconnect returns or throws.
ReconnectResume(r) ==
    /\ Ready
    /\ UNCHANGED <<drained, sequential, outside, issued>>
    /\ r.pc = "rcCreate"
    /\ Settled(r.conn)
    /\ Return(r, IF conn[r.conn].connectPromise = "rejected"
                 THEN <<"ConnectError", r.conn>>
                 ELSE <<"void", 0>>)
    /\ UNCHANGED <<connections, closing, conn, clientState, allocated,
                   onlyGets, sinceConnected>>

\* ---------------------------------------------------------------- close
\* close lines 153-158, up to the await of client.close().
Close(serverName) ==
    /\ Ready
    /\ UNCHANGED <<drained, sequential, outside>>
    /\ UNCHANGED <<connections, closing, allocated, sinceConnected>>
    /\ onlyGets' = FALSE
    /\ LET c == Lookup(serverName)
           base == [NoTask EXCEPT !.op = "close", !.name = serverName,
                                  !.conn = c]
       IN
       IF c = None THEN
           /\ ReturnAtOnce(base, <<"void", 0>>)
           /\ UNCHANGED <<conn, clientState>>
       ELSE
           /\ conn' = [conn EXCEPT ![c].status = "closed"]
           /\ clientState' = [clientState EXCEPT ![c] = CloseInvoked(@)]
           /\ Suspend([base EXCEPT !.pc = "clClose"])

\* variant: a rejection of client.close() is thrown to the caller of close
CloseResumeRethrows(r, ok) ==
    /\ Ready
    /\ UNCHANGED <<drained, sequential, outside, issued>>
    /\ r.pc = "clClose"
    /\ IF ok
       THEN /\ connections' = Delete(connections, r.name)
            /\ Return(r, <<"void", 0>>)
       ELSE /\ UNCHANGED connections
            /\ Return(r, <<"CloseError", r.conn>>)
    /\ UNCHANGED <<closing, conn, clientState, allocated, onlyGets,
                   sinceConnected>>

\* client.close() has settled, resolved (ok) or rejected, and the rejection is
\* swallowed (lines 157-161); the entry is deleted (line 162).
CloseResume(r, ok) ==
    /\ Ready
    /\ UNCHANGED <<drained, sequential, outside, issued>>
    /\ r.pc = "clClose"
    /\ connections' = Delete(connections, r.name)
    /\ Return(r, <<"void", 0>>)
    /\ UNCHANGED <<closing, conn, clientState, allocated, onlyGets,
                   sinceConnected>>

\* ------------------------------------------------------------- closeAll
\* closeAll lines 166-171: set the flag and call close(name) for every key;
\* each of those runs up to its await of client.close().  by is the caller:
\* "closeAll" for a call of the method as such, "cleanup" for runServer's
\* signal handler.
CloseAllCall(by) ==
    /\ Ready
    /\ UNCHANGED <<drained, sequential>>
    /\ closing' = TRUE
    /\ LET keys == {n \in ServerNames : connections[n] # None}
           recs == {connections[n] : n \in keys}
       IN
       /\ conn' = [c \in Clients |->
                     IF c \in recs THEN [conn[c] EXCEPT !.status = "closed"]
                     ELSE conn[c]]
       /\ clientState' = [c \in Clients |->
                     IF c \in recs THEN CloseInvoked(clientState[c])
                     ELSE clientState[c]]
       /\ Suspend([NoTask EXCEPT !.op = by, !.pc = "caWait", !.pend = keys])
    /\ onlyGets' = FALSE
    /\ UNCHANGED <<connections, allocated, sinceConnected>>

CloseAll == CloseAllCall("closeAll") /\ UNCHANGED outside

\* One of closeAll's close(name) calls resumes and deletes its entry (line 162).
CloseAllResume(r, serverName) ==
    /\ Ready
    /\ UNCHANGED <<drained, sequential, outside, issued>>
    /\ r.pc = "caWait"
    /\ serverName \in r.pend
    /\ connections' = Delete(connections, serverName)
    /\ Move(r, [r EXCEPT !.pend = @ \ {serverName}])
    /\ UNCHANGED <<closing, conn, clientState, allocated, onlyGets,
                   sinceConnected>>

\* Promise.all has resolved (line 171); the map is cleared (line 172) and
\* closeAll returns.  When the caller is cleanup (server.ts lines 23-24), it
\* goes on to call server.close() and awaits it.
CloseAllFinish(r) ==
    /\ Ready
    /\ r.pc = "caWait"
    /\ r.pend = {}
    /\ connections' = [n \in ServerNames |-> None]
    /\ drained' = TRUE
    /\ IF r.op = "cleanup"
       THEN /\ Move(r, [r EXCEPT !.pc = "srvClose"])
            /\ server' = "closed"
            /\ UNCHANGED <<exit, toolsLayer, ordering, issued>>
       ELSE /\ Return(r, <<"void", 0>>)
            /\ UNCHANGED <<outside, issued>>
    /\ UNCHANGED <<closing, conn, clientState, allocated, onlyGets,
                   sinceConnected, sequential>>

\* ------------------------------------------------- shutdown (server.ts 22-29)
\* variant: cleanup does not await closeAll before it closes the server
CleanupDoesNotAwait ==
    CloseAllCall("cleanup") /\ server' = "closed" /\ UNCHANGED <<exit, toolsLayer, ordering, issued>>

\* SIGINT or SIGTERM: cleanup runs up to its await of pool.closeAll() (line 23).
Cleanup == CloseAllCall("cleanup") /\ UNCHANGED <<outside, issued>>

\* server.close() has resolved (line 24); process.exit(0) (line 25).
CleanupExit(r) ==
    /\ Ready
    /\ r.pc = "srvClose"
    /\ exit' = <<0>>
    /\ tasks' = tasks (-) SetToBag({r})
    /\ UNCHANGED <<connections, closing, conn, clientState, allocated, ret,
                   onlyGets, sinceConnected, drained, sequential, server,
                   toolsLayer, ordering, issued>>

\* ------------------------------------------------------------------ spec
\* The awaiting caller takes the value or error handed back to it.
Deliver ==
    /\ ret # NoRet
    /\ ret' = NoRet
    /\ UNCHANGED <<connections, closing, conn, clientState, allocated, tasks,
                   onlyGets, sinceConnected, drained, sequential, outside, issued>>

Next ==
    \/ \E n \in AllNames : GetClient(n) /\ UNCHANGED issued
    \/ \E r \in InFlight : GetClientResume(r)
    \/ \E c \in Clients : ConnectOk(c)
    \/ \E c \in Clients : ConnectFail(c)
    \/ \E c \in Clients : TransportError(c)
    \/ \E c \in Clients : TransportClose(c)
    \/ \E n \in ServerNames : Reconnect(n) /\ UNCHANGED issued
    \/ \E r \in InFlight : ReconnectTimer(r)
    \/ \E r \in InFlight, ok \in BOOLEAN : ReconnectRebuild(r, ok)
    \/ \E r \in InFlight : ReconnectResume(r)
    \/ \E n \in ServerNames : Close(n) /\ UNCHANGED issued
    \/ \E r \in InFlight, ok \in BOOLEAN : CloseResume(r, ok)
    \/ CloseAll /\ UNCHANGED issued
    \/ \E r \in InFlight, n \in ServerNames : CloseAllResume(r, n)
    \/ \E r \in InFlight : CloseAllFinish(r)
    \/ Deliver

Spec == Init /\ [][Next]_vars

\* The process with its signal handlers: the pool's methods as above, and
\* cleanup on SIGINT / SIGTERM.
NextShutdown ==
    \/ Next
    \/ Cleanup
    \/ \E r \in InFlight : CleanupExit(r)

SpecShutdown == Init /\ [][NextShutdown]_vars

\* ------------------------------------------------------------ termination
\* reconnect calls suspended before line 150: each will build one more pair
Builders ==
    BagCardinality([r \in {x \in InFlight : /\ x.op = "reconnect"
                                            /\ x.pc \in {"rcDelay", "rcClose"}}
                       |-> CopiesIn(r, tasks)])

\* One more call is made to the pool.  A call that builds a pair (now, or when
\* it reaches line 150) is made only while the bound on pairs leaves room for
\* it and for the calls already on their way to line 150.
Admit(builds) ==
    /\ issued < MaxIssued
    /\ issued' = issued + 1
    /\ builds => allocated + Builders < MaxClients

CallGetClient(serverName) ==
    /\ Admit(~PoolIsClosing /\ NeedsCreate(Lookup(serverName)))
    /\ GetClient(serverName)

CallReconnect(serverName) ==
    /\ Admit(/\ Lookup(serverName) # None
             /\ ~ReachedMax(conn[Lookup(serverName)].reconnectAttempts))
    /\ Reconnect(serverName)

CallClose(serverName) == Admit(FALSE) /\ Close(serverName)

CallCloseAll == Admit(FALSE) /\ CloseAll

\* The pool under a finite number of calls, made at any moment and in any order.
NextLive ==
    \/ \E n \in ServerNames : CallGetClient(n)
    \/ \E n \in ServerNames : CallReconnect(n)
    \/ \E n \in ServerNames : CallClose(n)
    \/ CallCloseAll
    \/ \E r \in InFlight : GetClientResume(r)
    \/ \E c \in Clients : ConnectOk(c)
    \/ \E c \in Clients : ConnectFail(c)
    \/ \E c \in Clients : TransportError(c)
    \/ \E c \in Clients : TransportClose(c)
    \/ \E r \in InFlight : ReconnectTimer(r)
    \/ \E r \in InFlight, ok \in BOOLEAN : ReconnectRebuild(r, ok)
    \/ \E r \in InFlight : ReconnectResume(r)
    \/ \E r \in InFlight, ok \in BOOLEAN : CloseResume(r, ok)
    \/ \E r \in InFlight, n \in ServerNames : CloseAllResume(r, n)
    \/ \E r \in InFlight : CloseAllFinish(r)
    \/ Deliver

\* Every client.connect, every client.close and every backoff timer completes,
\* and the event loop runs every continuation whose promise has settled.
Completion ==
    /\ \A c \in Clients : WF_vars(ConnectOk(c) \/ ConnectFail(c))
    /\ WF_vars(\E r \in InFlight : ReconnectTimer(r))
    /\ WF_vars(\E r \in InFlight, ok \in BOOLEAN : ReconnectRebuild(r, ok))
    /\ WF_vars(\E r \in InFlight, ok \in BOOLEAN : CloseResume(r, ok))
    /\ WF_vars(\E r \in InFlight, n \in ServerNames : CloseAllResume(r, n))
    /\ WF_vars(\E r \in InFlight : GetClientResume(r))
    /\ WF_vars(\E r \in InFlight : ReconnectResume(r))
    /\ WF_vars(\E r \in InFlight : CloseAllFinish(r))
    /\ WF_vars(Deliver)

SpecLive == Init /\ [][NextLive]_vars /\ Completion

\* ------------------------------------------------------- schemas (lib/mcp.ts)
\* mcpToolSchema.parse: the fields the schema names, nothing else
McpToolParse(t) == [name |-> t.name, description |-> t.description]

\* mcpToolDetailSchema.parse
McpToolDetailParse(t) ==
    [name |-> t.name, description |-> t.description,
     inputSchema |-> t.inputSchema, outputSchema |-> t.outputSchema,
     annotations |-> t.annotations]

\* mcpCallToolResultSchema.parse
McpCallToolResultParse(r) ==
    [content |-> r.content, structuredContent |-> r.structuredContent,
     isError |-> r.isError]

\* getMcpServerTools: result.tools.map((tool) => mcpToolSchema.parse(tool))
GetMcpServerTools(tools) == [i \in 1..Len(tools) |-> McpToolParse(tools[i])]

\* variant: the search starts at the second tool
FindAfterFirst(tools, toolName) ==
    IF \E i \in 2..Len(tools) : tools[i].name = toolName
    THEN CHOOSE i \in 2..Len(tools) :
             /\ tools[i].name = toolName
             /\ \A j \in 2..(i - 1) : tools[j].name # toolName
    ELSE 0

\* result.tools.find((t) => t.name === toolName): the position of the first
\* tool of that name, 0 if there is none
Find(tools, toolName) ==
    IF \E i \in 1..Len(tools) : tools[i].name = toolName
    THEN CHOOSE i \in 1..Len(tools) :
             /\ tools[i].name = toolName
             /\ \A j \in 1..(i - 1) : tools[j].name # toolName
    ELSE 0

\* variant: a tool that is not found is an error
GetMcpServerToolOrThrow(tools, toolName) ==
    IF Find(tools, toolName) = 0
    THEN [kind |-> "error", error |-> "ToolNotFound", output |-> <<>>]
    ELSE [kind |-> "ok", error |-> "none",
          output |-> <<McpToolDetailParse(tools[Find(tools, toolName)])>>]

\* getMcpServerTool: null (<<>>) if the name is not found, else the parsed
\* tool (<<detail>>)
GetMcpServerTool(tools, toolName) ==
    [kind |-> "ok", error |-> "none",
     output |-> IF Find(tools, toolName) = 0 THEN <<>>
                ELSE <<McpToolDetailParse(tools[Find(tools, toolName)])>>]

\* variant: a result flagged isError is thrown
CallMcpServerToolThrowsOnError(result) ==
    IF result.isError = "true"
    THEN [kind |-> "error", error |-> "ToolError", output |-> <<>>]
    ELSE [kind |-> "ok", error |-> "none",
          output |-> <<McpCallToolResultParse(result)>>]

\* callMcpServerTool: mcpCallToolResultSchema.parse(result)
CallMcpServerTool(result) ==
    [kind |-> "ok", error |-> "none",
     output |-> <<McpCallToolResultParse(result)>>]

\* ------------------------------------------- tool handlers (tools.ts 130-267)
\* The handler hands back the output object, as structuredContent and, put
\* through JSON.stringify, as the text of content; or it throws.
Respond(r) ==
    /\ response' = [r EXCEPT !.pc = "done"]
    /\ request' = NoRequest

\* A list_tools, describe_tool or call_tool request arrives: the handler runs
\* from the configuration lookup up to the await of client.connect in
\* withMcpClient, or throws the not-found error.
ToolHandler(tool, server_name, tool_name) ==
    /\ exit = <<>>
    /\ request.pc = "idle"
    /\ tool = "list_tools" => tool_name = "none"
    /\ tool # "list_tools" => tool_name # "none"
    /\ LET r == [NoRequest EXCEPT !.tool = tool, !.server_name = server_name,
                                  !.tool_name = tool_name]
       IN
       IF ~Configured(server_name)
       THEN Respond([r EXCEPT !.kind = "error", !.error = "NotFound",
                              !.message = NotFoundMessage(server_name)])
       ELSE /\ request' = [r EXCEPT !.pc = "connect"]
            /\ response' = NoRequest
    /\ UNCHANGED <<pool, server, exit, ordering, listOut, provider, listed, fetches, listing>>

\* withMcpClient lines 121-123: client.connect(transport) has settled.  A
\* rejection skips the callback; the finally block runs either way.
WithMcpClientConnect(ok) ==
    /\ exit = <<>>
    /\ request.pc = "connect"
    /\ request' = IF ok THEN [request EXCEPT !.pc = "callback"]
                  ELSE [request EXCEPT !.pc = "finally", !.kind = "error",
                                       !.error = "ConnectError"]
    /\ UNCHANGED <<pool, server, exit, ordering, listOut, provider, response, listed, fetches,
                   listing>>

\* The callback's request to the provider has settled (client.listTools() or
\* client.callTool()): a protocol error is rethrown, an answer goes through the
\* function's schema.  answer is the provider's result of tools/call.
WithMcpClientCallback(ok, answer) ==
    /\ exit = <<>>
    /\ request.pc = "callback"
    /\ LET tools == provider[request.server_name]
           out == CASE request.tool = "list_tools" ->
                         [kind |-> "ok", error |-> "none",
                          output |-> <<GetMcpServerTools(tools)>>]
                    [] request.tool = "describe_tool" ->
                         GetMcpServerTool(tools, request.tool_name)
                    [] request.tool = "call_tool" ->
                         CallMcpServerTool(answer)
       IN
       request' =
           IF ok
           THEN [request EXCEPT !.pc = "finally", !.kind = out.kind,
                    !.error = out.error, !.output = out.output,
                    !.raw = IF request.tool = "call_tool" THEN <<answer>>
                            ELSE <<tools>>]
           ELSE [request EXCEPT !.pc = "finally", !.kind = "error",
                    !.error = "RpcError"]
    /\ UNCHANGED <<pool, server, exit, ordering, listOut, provider, response, listed, fetches,
                   listing>>

\* the handler's output object (tools.ts lines 159-162, 207-210, 257-261)
Output(r) ==
    CASE r.tool = "list_tools" ->
           <<[server_name |-> r.server_name, tools |-> r.output[1]]>>
      [] r.tool = "describe_tool" ->
           <<[server_name |-> r.server_name, tool |-> r.output]>>
      [] r.tool = "call_tool" ->
           <<[server_name |-> r.server_name, tool_name |-> r.tool_name,
              result |-> r.output[1]]>>

\* withMcpClient lines 124-126: client.close() in the finally block has
\* settled; its rejection replaces the callback's outcome.  The handler then
\* wraps the value into its output object and responds.
WithMcpClientFinally(ok) ==
    /\ exit = <<>>
    /\ request.pc = "finally"
    /\ IF ~ok
       THEN Respond([request EXCEPT !.kind = "error", !.error = "CloseError",
                                    !.output = <<>>])
       ELSE IF request.kind = "error"
       THEN Respond(request)
       ELSE Respond([request EXCEPT !.output = Output(request)])
    /\ listed' =
         IF /\ ok
            /\ request.kind = "ok"
            /\ request.tool = "list_tools"
            /\ request.raw = <<provider[request.server_name]>>
         THEN [listed EXCEPT ![request.server_name] =
                  <<{request.output[1][i].name :
                        i \in 1..Len(request.output[1])}>>]
         ELSE listed
    /\ UNCHANGED <<pool, server, exit, ordering, listOut, provider, fetches, listing>>

\* The provider's tools change (the environment).
ProviderChanges(serverName, tools) ==
    /\ exit = <<>>
    /\ provider[serverName] # tools
    /\ provider' = [provider EXCEPT ![serverName] = tools]
    /\ listed' = [listed EXCEPT ![serverName] = <<>>]
    /\ UNCHANGED <<pool, server, exit, ordering, listOut, request, response, fetches, listing>>

\* A request to a tool handler, from its arrival to its response.
Handlers ==
    \/ \E tool \in {"list_tools", "describe_tool", "call_tool"},
          n \in AllNames, t \in ToolNames \cup {"none"} : ToolHandler(tool, n, t)
    \/ \E ok \in BOOLEAN : WithMcpClientConnect(ok)
    \/ \E ok \in BOOLEAN, answer \in CallResults : WithMcpClientCallback(ok, answer)
    \/ \E ok \in BOOLEAN : WithMcpClientFinally(ok)

\* The tool handlers and their providers.
NextTools ==
    \/ Handlers
    \/ \E n \in ServerNames, tools \in ToolLists : ProviderChanges(n, tools)

SpecTools == Init /\ [][NextTools]_vars

\* Every operation that takes a provider's name, asked for a name that is not
\* configured: the tool handlers as above, and the pool's getClient, before
\* and after closeAll.
NextLookup ==
    \/ Handlers
    \/ \E n \in AllNames \ ServerNames : GetClient(n) /\ UNCHANGED issued
    \/ CloseAll /\ UNCHANGED issued
    \/ \E r \in InFlight : CloseAllFinish(r)
    \/ Deliver

SpecLookup == Init /\ [][NextLookup]_vars

\* ------------------------------------- list_mcp_servers (tools.ts 91-127)
\* client.getServerVersion() of a provider: the Implementation it announced,
\* which has a name of its own
ServerVersion(p) == [name |-> "impl", version |-> "1.0." \o ToString(p)]

\* variant: the fields the schema does not name are kept
McpServerInfoPassthrough(info) == info

\* mcpServerInfoSchema.parse: version, description and instructions, nothing
\* else ("absent": the optional field is not there)
McpServerInfoParse(info) ==
    [k \in {"version", "description", "instructions"} |->
        IF k \in DOMAIN info THEN info[k] ELSE "absent"]

\* { name, ...server } (lines 105, 114): a key of server replaces name
Spread(name, info) ==
    [k \in {"name"} \cup DOMAIN info |->
        IF k \in DOMAIN info THEN info[k] ELSE name]

\* the value a task resolves with (lines 101-115)
ServerEntry(p) == Spread(EntryKey(p), McpServerInfoParse(ServerVersion(p)))

\* the limiter's tasks that have started and not finished (p-limit's
\* activeCount)
Active == {p \in Entries : fetches[p] = "running"}

\* variant: the limiter starts a task whatever the number of active ones
HasSlotAlways == TRUE

\* p-limit: activeCount < concurrency
HasSlot == Cardinality(Active) < concurrency

\* the head of the limiter's queue: tasks are queued in configuration order
QueueHead(p) == fetches[p] = "queued" /\ \A q \in 1..(p - 1) : fetches[q] # "queued"

\* The handler is called: limit(...) queues one task per entry of the
\* configuration (lines 92-97), and the handler awaits Promise.all.
ListMcpServers ==
    /\ exit = <<>>
    /\ listing = "idle"
    /\ fetches' = [p \in Entries |-> "queued"]
    /\ listing' = "pending"
    /\ UNCHANGED <<pool, server, exit, ordering, listOut, provider, request,
                   response, listed>>

\* The limiter starts the task at the head of its queue.
StartFetch(p) ==
    /\ exit = <<>>
    /\ QueueHead(p)
    /\ HasSlot
    /\ fetches' = [fetches EXCEPT ![p] = "running"]
    /\ UNCHANGED <<pool, server, exit, ordering, listOut, provider, request,
                   response, listed, listing>>

\* A task's fetch (getStdioMcpServer / getStreamableHttpMcpServer, lines
\* 101-115) has resolved or rejected.  Promise.all rejects with the first
\* rejection and ignores the later ones.
FinishFetch(p, ok) ==
    /\ exit = <<>>
    /\ fetches[p] = "running"
    /\ fetches' = [fetches EXCEPT ![p] = IF ok THEN "done" ELSE "failed"]
    /\ rejection' = IF ~ok /\ rejection = 0 THEN p ELSE rejection
    /\ UNCHANGED <<pool, server, exit, ordering, listResult, provider, request,
                   response, listed, listing>>

\* Promise.all (line 95) has settled: it rejects as soon as one task has
\* rejected, and the handler rethrows; it resolves when all have resolved,
\* with the tasks' values in the order of the entries, and the handler returns
\* them as servers.
ListSettles ==
    /\ exit = <<>>
    /\ listing = "pending"
    /\ \/ /\ \E p \in Entries : fetches[p] = "failed"
          /\ listing' = "error"
          /\ listResult' = [kind |-> "error",
                            error |-> <<"FetchError", rejection>>,
                            servers |-> <<>>]
       \/ /\ \A p \in Entries : fetches[p] = "done"
          /\ listing' = "ok"
          /\ listResult' = [kind |-> "ok", error |-> <<"none", 0>>,
                            servers |-> [p \in Entries |-> ServerEntry(p)]]
    /\ UNCHANGED <<pool, server, exit, ordering, rejection, provider, request,
                   response, listed, fetches>>

\* The call is over and all its tasks have finished; the handler can be called
\* again, with a new limiter.
ListOver ==
    /\ exit = <<>>
    /\ listing \in {"ok", "error"}
    /\ \A p \in Entries : fetches[p] \in {"done", "failed"}
    /\ fetches' = [p \in Entries |-> "none"]
    /\ listing' = "idle"
    /\ rejection' = 0
    /\ listResult' = NoResult
    /\ UNCHANGED <<pool, server, exit, ordering, provider, request, response,
                   listed>>

NextList ==
    \/ ListMcpServers
    \/ \E p \in Entries : StartFetch(p)
    \/ \E p \in Entries, ok \in BOOLEAN : FinishFetch(p, ok)
    \/ ListSettles
    \/ ListOver

SpecList == Init /\ [][NextList]_vars


\* ------------------------------ getClient, continuation by continuation
\* The getClient calls of a run with the order of their continuations: a
\* promise that settles queues the continuations awaiting it in the order in
\* which they started to await it, and the queue runs first in, first out.
\* Calls and connect outcomes arrive as events, between which the queue is
\* run empty.

\* a continuation: the call it belongs to, the await it resumes from, and the
\* record the call holds
Reaction(id, pc, c) == [id |-> id, pc |-> pc, conn |-> c]

\* getClient lines 30-60 up to the first await, for a pool that is not closing
\* and a configured name.  A call that creates the record awaits inside
\* createConnection (line 114); a call that finds it connecting awaits the
\* same promise at line 51.
GetClientCall(serverName) ==
    /\ exit = <<>>
    /\ ~PoolIsClosing
    /\ jobs = <<>>
    /\ calls < MaxCalls
    /\ calls' = calls + 1
    /\ LET c == Lookup(serverName) IN
       IF NeedsCreate(c) THEN
           /\ CanBuild
           /\ CreateConnection(serverName, "getClient", connections)
           /\ reactions' = [reactions EXCEPT ![allocated + 1] =
                               Append(@, Reaction(calls + 1, "cc114", allocated + 1))]
           /\ UNCHANGED completed
       ELSE IF Awaits(c, "connecting") THEN
           /\ reactions' = [reactions EXCEPT ![c] =
                               Append(@, Reaction(calls + 1, "gc51", c))]
           /\ UNCHANGED <<connections, conn, clientState, allocated, completed>>
       ELSE
           /\ completed' = Append(completed,
                              [id |-> calls + 1, conn |-> c, waited |-> FALSE])
           /\ UNCHANGED <<connections, conn, clientState, allocated, reactions>>
    /\ UNCHANGED <<closing, tasks, ret, onlyGets, sinceConnected, drained,
                   sequential, server, exit, toolsLayer, jobs, issued>>

\* client.connect has resolved or rejected and the async block of lines 92-111
\* has run: connectPromise settles, which queues the continuations awaiting it.
ConnectSettles(c, ok) ==
    /\ exit = <<>>
    /\ jobs = <<>>
    /\ conn[c].connectPromise = "pending"
    /\ conn' = [conn EXCEPT ![c].status = IF ok THEN "connected" ELSE "closed",
                            ![c].connectPromise =
                                IF ok THEN "resolved" ELSE "rejected"]
    /\ clientState' = [clientState EXCEPT ![c] =
                          IF ok THEN "connected" ELSE "closed"]
    /\ connections' = IF ok THEN connections
                      ELSE Delete(connections, conn[c].server)
    /\ jobs' = reactions[c]
    /\ reactions' = [reactions EXCEPT ![c] = <<>>]
    /\ UNCHANGED <<closing, allocated, tasks, ret, onlyGets, sinceConnected,
                   drained, sequential, server, exit, toolsLayer, calls,
                   completed, issued>>

\* The first continuation of the queue runs.  After line 114 createConnection
\* returns conn or rethrows, which settles its own promise and queues the
\* continuation of getClient's await at line 46; after line 46 or line 51
\* getClient runs to its return (or rethrows) and the call completes.
RunJob ==
    /\ exit = <<>>
    /\ jobs # <<>>
    /\ IF jobs[1].pc = "cc114"
       THEN /\ jobs' = Append(Tail(jobs), [jobs[1] EXCEPT !.pc = "gc46"])
            /\ UNCHANGED completed
       ELSE /\ jobs' = Tail(jobs)
            /\ completed' = Append(completed,
                               [id |-> jobs[1].id, conn |-> jobs[1].conn,
                                waited |-> TRUE])
    /\ UNCHANGED <<pool, server, exit, toolsLayer, calls, reactions>>

NextOrdering ==
    \/ \E n \in ServerNames : GetClientCall(n)
    \/ \E c \in Clients, ok \in BOOLEAN : ConnectSettles(c, ok)
    \/ RunJob

SpecOrdering == Init /\ [][NextOrdering]_vars

TypeOK ==
    /\ connections \in [ServerNames -> Clients \cup {None}]
    /\ closing \in BOOLEAN
    /\ allocated \in 0..MaxClients
    /\ BagCardinality(tasks) <= MaxInFlight
    /\ drained \in BOOLEAN
    /\ server \in {"open", "closed"}
    /\ exit \in {<<>>, <<0>>}
    /\ issued \in 0..MaxIssued

\* ---------------------------------------------------------------- claims
\* the first connect attempt started for a provider
First(serverName) ==
    CHOOSE c \in Attempts(serverName) : \A x \in Attempts(serverName) : c <= x

Failure(c) == <<"ConnectError", c>>
Handle(c) == <<"client", c>>

\* C1: getClient calls issued for one provider before any connect attempt for
\* it has settled (and with no other method called) share one attempt: while
\* nothing has settled at most one attempt exists and every such call waits on
\* it; each of them returns that attempt's client when it succeeded and fails
\* with that attempt's error when it failed.
C1_SharedAttempt ==
    /\ onlyGets =>
         \A n \in ServerNames :
            (\A c \in Attempts(n) : ~Settled(c)) => Cardinality(Attempts(n)) <= 1
    /\ \A r \in InFlight :
         r.early => /\ r.op = "getClient"
                    /\ r.conn = First(r.name)
    /\ ret.early =>
         /\ ret.conn = First(conn[ret.conn].server)
         /\ ret.result = IF conn[ret.conn].connectPromise = "rejected"
                         THEN Failure(ret.conn)
                         ELSE Handle(ret.conn)
         /\ Settled(ret.conn)

\* C1 witness: a call that joined the attempt of an earlier call got that
\* attempt's client.
C1_Witness ==
    /\ ret.early
    /\ ret.seen = "connecting"
    /\ ret.result = Handle(ret.conn)
    /\ onlyGets

\* C2: at every moment at most one client of a provider is connected and not
\* yet closed.
C2_AtMostOneLive ==
    \A n \in ServerNames :
        Cardinality({c \in Attempts(n) : clientState[c] = "connected"}) <= 1

\* C3: a getClient call that found the record connecting or reconnecting
\* returns only after that attempt has finished, with the client the attempt
\* produced: the record's own client for a first connect, the newly built
\* client (not the old one) for a reconnect.
C3_AwaitsInFlightAttempt ==
    /\ (ret.seen = "connecting" /\ ret.result[1] = "client") =>
          /\ ret.result = Handle(ret.conn)
          /\ conn[ret.conn].connectPromise = "resolved"
    /\ (ret.seen = "reconnecting" /\ ret.result[1] = "client") =>
          /\ ret.result # Handle(ret.conn)
          /\ conn[ret.result[2]].origin = "reconnect"
          /\ clientState[ret.result[2]] = "connected"

C5_ClosingRefusesNew ==
    [][\A n \in AllNames :
         (closing /\ Lookup(n) = None /\ GetClient(n))
         => /\ ret'.result = <<"PoolClosing", 0>>
            /\ UNCHANGED <<connections, conn, clientState, allocated, tasks>>]_vars

\* C5 witness: closeAll has been called and a getClient call was refused.
C5_Witness ==
    /\ closing
    /\ ret.result = <<"PoolClosing", 0>>
    /\ \A n \in ServerNames : connections[n] = None

\* C6: once a closeAll call has run to completion the map is empty and no
\* client is connected, then and ever after.
C6_DrainedStaysEmpty ==
    drained => /\ \A n \in ServerNames : connections[n] = None
               /\ \A c \in Clients : clientState[c] # "connected"

\* C7: reconnect on a record whose reconnectAttempts is at least 3 fails with
\* the max-reconnect-attempts error and changes nothing: no timer, no close,
\* no connect attempt, the record and the map as they were.
C7_BoundRefuses ==
    [][\A n \in ServerNames :
         (/\ connections[n] # None
          /\ conn[connections[n]].reconnectAttempts >= 3
          /\ Reconnect(n))
         => /\ ret'.result = <<"MaxReconnect", 0>>
            /\ UNCHANGED <<connections, closing, conn, clientState, allocated,
                           tasks>>]_vars

\* C7 witness: a reconnect call was refused on a record that has counted 3
\* attempts.
C7_Witness ==
    /\ ret.result = <<"MaxReconnect", 0>>
    /\ ret.conn # None
    /\ conn[ret.conn].reconnectAttempts = 3

\* the connect attempt started last for a provider
Latest(serverName) ==
    CHOOSE c \in Attempts(serverName) : \A x \in Attempts(serverName) : x <= c

\* C8: the k-th reconnect attempt for a provider since its connection last
\* reached connected (k = 1, 2, 3) waits 1000 * 2^(k-1) ms on its timer.
C8_BackoffByAttempt ==
    \A r \in InFlight :
        (r.pc = "rcDelay" /\ r.k \in 1..3) => r.delay = 1000 * 2 ^ (r.k - 1)

\* C9: when the connect attempt of a first-time creation fails, its record is
\* not in the map afterwards, every getClient call that waited on it fails
\* with that attempt's error, and the next getClient call for the provider
\* (the pool not closing) builds a new record and starts a new connect attempt
\* instead of waiting on or handing out the failed record.
C9_FailedCreationIsDiscarded ==
    /\ [](\A n \in ServerNames :
            connections[n] # None
            => conn[connections[n]].connectPromise # "rejected")
    /\ []((/\ ret.conn # None
           /\ ret.result[1] \in {"client", "ConnectError"}
           /\ conn[ret.conn].origin = "getClient"
           /\ conn[ret.conn].connectPromise = "rejected")
          => ret.result = Failure(ret.conn))
    /\ [][\A n \in ServerNames :
            (/\ Attempts(n) # {}
             /\ conn[Latest(n)].origin = "getClient"
             /\ conn[Latest(n)].connectPromise = "rejected"
             /\ ~closing
             /\ GetClient(n))
            => /\ allocated' = allocated + 1
               /\ connections'[n] = allocated + 1
               /\ conn'[allocated + 1].connectPromise = "pending"
               /\ ret' = NoRet]_vars

\* C9 witness: a call that had joined a first-time attempt failed with that
\* attempt's error, and the record is gone from the map.
C9_Witness ==
    /\ ret.seen = "connecting"
    /\ ret.result = Failure(ret.conn)
    /\ conn[ret.conn].origin = "getClient"
    /\ connections[conn[ret.conn].server] = None

\* C10: when the connect attempt of a reconnect fails with reconnectAttempts
\* below 3, the record stays in the map in state closed, and a following
\* reconnect call for the provider is not a no-op and is not refused with the
\* max-reconnect-attempts error.
C10_FailedReconnectStaysClosed ==
    /\ [][\A c \in Clients :
            (/\ conn[c].origin = "reconnect"
             /\ conn[c].reconnectAttempts < 3
             /\ ConnectFail(c))
            => /\ connections'[conn[c].server] = c
               /\ conn'[c].status = "closed"]_vars
    /\ [][\A n \in ServerNames :
            (/\ Attempts(n) # {}
             /\ conn[Latest(n)].origin = "reconnect"
             /\ conn[Latest(n)].connectPromise = "rejected"
             /\ conn[Latest(n)].reconnectAttempts < 3
             /\ Reconnect(n))
            => ret' = NoRet]_vars

\* C16: the server is closed only after a closeAll has run to completion, and
\* the process exits only after the server has been closed, with status 0; a
\* cleanup run reaches its server.close() only after its own closeAll returned.
C16_ShutdownOrder ==
    /\ server = "closed" => drained
    /\ exit # <<>> => /\ exit = <<0>>
                      /\ server = "closed"
                      /\ drained
    /\ \A r \in InFlight :
          r.pc = "srvClose" => /\ r.op = "cleanup"
                               /\ r.pend = {}
                               /\ server = "closed"
                               /\ drained

\* C16 witness: the process has exited after a connected client was closed.
C16_Witness ==
    /\ exit = <<0>>
    /\ server = "closed"
    /\ \E c \in Clients : /\ conn[c].connectPromise = "resolved"
                          /\ conn[c].status = "closed"
                          /\ clientState[c] \in {"closing", "closed"}

\* C17: close(name) on a provider with no record returns without error and
\* changes nothing; a close call that resumes after client.close() settled,
\* resolved or rejected, returns without error and leaves no record for the
\* name, so that a second call in sequence is the no-record case.
C17_CloseIsIdempotent ==
    /\ [][\A n \in ServerNames :
            (connections[n] = None /\ Close(n))
            => /\ ret'.op = "close"
               /\ ret'.result = <<"void", 0>>
               /\ UNCHANGED <<connections, closing, conn, clientState,
                              allocated, tasks>>]_vars
    /\ [][\A r \in InFlight : \A ok \in BOOLEAN :
            CloseResume(r, ok)
            => /\ ret'.op = "close"
               /\ ret'.result = <<"void", 0>>
               /\ connections'[r.name] = None]_vars
    /\ [](ret.op = "close"
          => /\ ret.result = <<"void", 0>>
             /\ ret.conn # None => connections[conn[ret.conn].server] = None)

\* C17 witness: a close call found no record and returned without error, after
\* an earlier close had removed the provider's record.
C17_Witness ==
    /\ ret.op = "close"
    /\ ret.conn = None
    /\ ret.result = <<"void", 0>>
    /\ \A n \in ServerNames : connections[n] = None
    /\ ~closing
    /\ allocated = 1
    /\ tasks = EmptyBag
    /\ conn[1].connectPromise = "resolved"
    /\ conn[1].status = "closed"
    /\ clientState[1] \in {"closing", "closed"}

\* the edges of the status state machine ("none" is absent)
StatusEdge(s, t) ==
    \/ s = t
    \/ <<s, t>> \in {<<"none", "connecting">>,
                     <<"connecting", "connected">>,
                     <<"connected", "closed">>,
                     <<"closed", "reconnecting">>,
                     <<"reconnecting", "connected">>,
                     <<"reconnecting", "closed">>}
    \/ s # "none" /\ t = "closed"

\* C18: every change of a record's status is an edge of the state machine
\* absent -> connecting -> connected -> closed -> reconnecting ->
\* connected | closed, or any state -> closed; there is no step from
\* connecting to reconnecting.
C18_StatusStateMachine ==
    [][\A c \in Clients : StatusEdge(conn[c].status, conn'[c].status)]_vars

\* C19: after k sequential reconnect calls for a provider (k = 1, 2, 3) whose
\* connect attempts all failed since the provider last reached connected, the
\* provider's record has reconnectAttempts = k; and after three of them the
\* next reconnect call fails with the max-reconnect-attempts error.
C19_CounterCountsFailures ==
    /\ [](\A n \in ServerNames :
            (/\ ret.op = "reconnect"
             /\ ret.conn # None
             /\ conn[ret.conn].server = n
             /\ ret.result = Failure(ret.conn)
             /\ sequential[n]
             /\ ~Reconnecting(n)
             /\ sinceConnected[n] \in 1..3)
            => /\ connections[n] # None
               /\ conn[connections[n]].reconnectAttempts = sinceConnected[n])
    /\ [][\A n \in ServerNames :
            (/\ sequential[n]
             /\ ~Reconnecting(n)
             /\ sinceConnected[n] = 3
             /\ Reconnect(n))
            => ret'.result = <<"MaxReconnect", 0>>]_vars

\* C20: a reconnect call that passes the bound sets the status to reconnecting
\* and counts the attempt, then waits for its timer; when the timer fires it
\* invokes close on the old client; when that close has settled, resolved or
\* rejected, it builds one new client/transport pair, puts its record in the
\* map and starts its connect attempt; and when that attempt succeeds while
\* the record is still the map's entry, the entry is the new client's record in
\* state connected, the old client having had close invoked.
C20_ReconnectSteps ==
    /\ [][\A n \in ServerNames :
            (/\ connections[n] # None
             /\ conn[connections[n]].reconnectAttempts < 3
             /\ Reconnect(n))
            => /\ conn'[connections[n]].status = "reconnecting"
               /\ conn'[connections[n]].reconnectAttempts
                     = conn[connections[n]].reconnectAttempts + 1
               /\ ret' = NoRet
               /\ \E r \in BagToSet(tasks') :
                     /\ r.op = "reconnect" /\ r.pc = "rcDelay"
                     /\ r.conn = connections[n]
                     /\ r.delay = 1000 * 2 ^ conn[connections[n]].reconnectAttempts
               /\ UNCHANGED <<connections, clientState, allocated>>]_vars
    /\ [][\A r \in InFlight :
            ReconnectTimer(r)
            => /\ clientState'[r.conn] \notin {"connecting", "connected"}
               /\ UNCHANGED <<connections, conn, allocated>>]_vars
    /\ [][\A r \in InFlight : \A ok \in BOOLEAN :
            ReconnectRebuild(r, ok)
            => /\ clientState[r.conn] \notin {"connecting", "connected"}
               /\ allocated' = allocated + 1
               /\ connections'[r.name] = allocated + 1
               /\ conn'[allocated + 1].status = "connecting"
               /\ conn'[allocated + 1].connectPromise = "pending"
               /\ clientState'[allocated + 1] = "connecting"
               /\ ret' = NoRet]_vars
    /\ [](\A r \in InFlight :
            r.pc = "rcCreate"
            => /\ r.old # None /\ r.old # r.conn
               /\ clientState[r.old] \notin {"connecting", "connected"}
               /\ conn[r.conn].origin = "reconnect")
    /\ [][\A c \in Clients :
            (/\ conn[c].origin = "reconnect"
             /\ connections[conn[c].server] = c
             /\ ConnectOk(c))
            => /\ connections'[conn[c].server] = c
               /\ conn'[c].status = "connected"
               /\ clientState'[c] = "connected"]_vars

\* C20 witness: a reconnect call's new connect attempt has succeeded; the map
\* holds the new record, connected, and the old client is closed.
C20_Witness ==
    \E r \in InFlight :
        /\ r.op = "reconnect" /\ r.pc = "rcCreate"
        /\ connections[r.name] = r.conn
        /\ conn[r.conn].status = "connected"
        /\ clientState[r.conn] = "connected"
        /\ clientState[r.old] \in {"closing", "closed"}


\* C12: during one list_mcp_servers call, whatever the number of configured
\* providers, the fetches that have started and not yet finished are never
\* more than 5.
C12_AtMostFiveInFlight == Cardinality(Active) <= 5

\* C12 witness: five fetches are running, one has finished and another is
\* still waiting in the limiter's queue.
C12_Witness ==
    /\ listing = "pending"
    /\ Cardinality(Active) = 5
    /\ \E p \in Entries : fetches[p] = "done"
    /\ \E p \in Entries : fetches[p] = "queued"

\* a response of the handler for tool whose provider connected, answered and
\* was closed without an error
Answered(tool) ==
    /\ response.pc = "done"
    /\ response.tool = tool
    /\ response.raw # <<>>
    /\ response.error # "CloseError"

\* C13: describe_tool on a configured, reachable provider succeeds with
\* {server_name, tool: null} when no tool of the provider has the name asked
\* for, and with the detail record of the (first) tool of that name otherwise.
C13_UnknownToolIsNull ==
    Answered("describe_tool") =>
        LET tools == response.raw[1]
            named == {i \in 1..Len(tools) : tools[i].name = response.tool_name}
            out == response.output[1]
        IN
        /\ response.kind = "ok"
        /\ Len(response.output) = 1
        /\ out.server_name = response.server_name
        /\ named = {} => out.tool = <<>>
        /\ named # {} =>
             \E i \in named :
                /\ \A j \in named : i <= j
                /\ out.tool = <<[name |-> tools[i].name,
                                 description |-> tools[i].description,
                                 inputSchema |-> tools[i].inputSchema,
                                 outputSchema |-> tools[i].outputSchema,
                                 annotations |-> tools[i].annotations]>>

\* C13 witness: a provider with tools was asked for a name none of them has,
\* and describe_tool responded successfully with tool: null.
C13_Witness ==
    /\ Answered("describe_tool")
    /\ response.raw[1] # <<>>
    /\ response.tool_name = "t9"
    /\ response.kind = "ok"
    /\ response.output[1].tool = <<>>

\* C14: call_tool responds successfully with {server_name, tool_name, result}
\* where result carries the provider's content, structuredContent and isError
\* as the provider gave them, also when isError is true.
C14_ResultIsForwarded ==
    Answered("call_tool") =>
        /\ response.kind = "ok"
        /\ Len(response.output) = 1
        /\ response.output[1].server_name = response.server_name
        /\ response.output[1].tool_name = response.tool_name
        /\ response.output[1].result.content = response.raw[1].content
        /\ response.output[1].result.structuredContent
               = response.raw[1].structuredContent
        /\ response.output[1].result.isError = response.raw[1].isError

\* C14 witness: the provider's result had isError = true and call_tool
\* responded successfully with it.
C14_Witness ==
    /\ Answered("call_tool")
    /\ response.raw[1].isError = "true"
    /\ response.kind = "ok"
    /\ response.output[1].result.isError = "true"

\* C15: while a provider's tool list has not changed since list_tools returned
\* it, describe_tool for any of the names list_tools returned yields a detail
\* record that is not null and has the name asked for.
C15_ListedNamesDescribe ==
    (/\ Answered("describe_tool")
     /\ listed[response.server_name] # <<>>
     /\ response.tool_name \in listed[response.server_name][1])
    => /\ response.kind = "ok"
       /\ response.output[1].tool # <<>>
       /\ response.output[1].tool[1].name = response.tool_name

\* C15 witness: list_tools returned two tools of the same name, the list has
\* not changed, and describe_tool was asked for that name and answered.
C15_Witness ==
    /\ Answered("describe_tool")
    /\ listed[response.server_name] = <<{"t1"}>>
    /\ Len(response.raw[1]) = 2
    /\ response.tool_name = "t1"
    /\ response.output[1].tool # <<>>

\* the pool as its methods leave it: map, flag, records, clients, suspended calls
PoolState == <<connections, closing, conn, clientState, allocated, tasks>>

\* a tool handler's step for a name that is not configured fails with the
\* not-found error naming "a, b", starts no session and leaves the pool alone
HandlerRefuses ==
    \A tool \in {"list_tools", "describe_tool", "call_tool"},
       n \in AllNames \ ServerNames, t \in ToolNames \cup {"none"} :
        ToolHandler(tool, n, t)
        => /\ response'.kind = "error"
           /\ response'.error = "NotFound"
           /\ response'.message =
                "MCP server \"c\" not found in configuration. Available servers: a, b"
           /\ request' = NoRequest
           /\ UNCHANGED PoolState

C21_ClosedIsReplaced ==
    /\ [][\A c \in Clients :
            ((TransportError(c) \/ TransportClose(c))
             /\ conn[c].status = "connected" /\ Referenced(c))
            => conn'[c].status = "closed"]_vars
    /\ [][\A n \in ServerNames :
            (/\ GetClient(n)
             /\ ~closing
             /\ connections[n] # None
             /\ conn[connections[n]].status = "closed")
            => /\ allocated' = allocated + 1
               /\ connections'[n] = allocated'
               /\ conn'[allocated'].status = "connecting"
               /\ conn'[allocated'].connectPromise = "pending"
               /\ clientState'[allocated'] = "connecting"
               /\ \E r \in BagToSet(tasks') :
                     /\ r.op = "getClient" /\ r.name = n
                     /\ r.seen = "closed" /\ r.conn = allocated'
                     /\ tasks' = tasks (+) SetToBag({r})
               /\ ret' = NoRet]_vars
    /\ [][\A n \in ServerNames :
            (/\ GetClient(n)
             /\ ~closing
             /\ connections[n] # None
             /\ conn[connections[n]].status = "connecting"
             /\ conn[connections[n]].connectPromise = "pending")
            => /\ UNCHANGED <<connections, conn, clientState, allocated>>
               /\ \E r \in BagToSet(tasks') :
                     /\ r.op = "getClient" /\ r.name = n
                     /\ r.conn = connections[n]
                     /\ tasks' = tasks (+) SetToBag({r})]_vars
    /\ [](\A r \in InFlight :
            (r.op = "getClient" /\ r.seen = "closed")
            => /\ conn[r.conn].origin = "getClient"
               /\ conn[r.conn].server = r.name
               /\ r.pc \in {"gcCreate", "gc51", "gc55"})
    /\ [][\A r \in InFlight :
            (GetClientResume(r) /\ ret'.result[1] = "client")
            => /\ ret'.result = Handle(r.conn)
               /\ conn[r.conn].connectPromise = "resolved"]_vars

\* C21 witness: the transport of client 1 reported an error (the record is
\* closed, the client itself still connected), and a getClient call that found
\* the closed record returned client 2, which it had built and connected.
C21_Witness ==
    /\ conn[1].status = "closed"
    /\ conn[1].connectPromise = "resolved"
    /\ clientState[1] = "connected"
    /\ ret.op = "getClient"
    /\ ret.seen = "closed"
    /\ ret.conn = 2
    /\ ret.result = Handle(2)
    /\ conn[2].server = conn[1].server
    /\ clientState[2] = "connected"

\* C22: in every state a record's connectPromise is empty when the record is
\* connected or closed, and is the promise of an attempt still in flight when
\* the record is connecting or reconnecting.
C22_PendingIffInFlight ==
    \A c \in Clients :
        /\ conn[c].status \in {"connected", "closed"}
              => conn[c].connectPromise = "none"
        /\ conn[c].status \in {"connecting", "reconnecting"}
              => conn[c].connectPromise = "pending"

\* C23: getClient calls that waited on the same connect attempt complete in
\* the order in which they started to wait; the call that created the record
\* is the first of them.
C23_CompletionOrder ==
    \A i, j \in 1..Len(completed) :
        (/\ i < j
         /\ completed[i].waited /\ completed[j].waited
         /\ completed[i].conn = completed[j].conn)
        => completed[i].id < completed[j].id

\* C24: whenever a close(name) call removes an entry from the map, the record
\* it removes is the one whose client that call has invoked close on.
C24_RemovesWhatItClosed ==
    [][\A r \in InFlight, ok \in BOOLEAN :
          (CloseResume(r, ok) /\ connections[r.name] # None)
          => /\ connections[r.name] = r.conn
             /\ clientState[connections[r.name]] \in {"closing", "closed"}]_vars

\* C25: a getClient call never returns a client on which the pool has already
\* invoked close (a client is closing from the moment close is invoked on it
\* while connected until its transport reports the end).
C25_ReturnsLiveClient ==
    (ret.op = "getClient" /\ ret.result[1] = "client")
    => clientState[ret.result[2]] # "closing"

\* C26: closeAll sets the closing flag and nothing resets it; from then on
\* every getClient call, for a name with a record, without one, or not
\* configured at all, fails at once with the pool-closing error and changes
\* nothing.
C26_ClosingRefusesAll ==
    /\ [][CloseAll => closing']_vars
    /\ [][closing => closing']_vars
    /\ [](~closing => (~drained /\ \A r \in InFlight : r.op # "closeAll"))
    /\ [][\A n \in AllNames :
            (GetClient(n) /\ closing)
            => /\ ret'.op = "getClient"
               /\ ret'.result = <<"PoolClosing", 0>>
               /\ ret'.message = ""
               /\ UNCHANGED PoolState]_vars

\* C26 witness: closeAll is still waiting for a client to close, the record is
\* still in the map, and a getClient call for its name was refused with the
\* pool-closing error.
C26_Witness ==
    /\ closing
    /\ \E r \in InFlight : r.op = "closeAll" /\ r.pend # {}
    /\ ret.op = "getClient"
    /\ ret.seen = "closed"
    /\ ret.result = <<"PoolClosing", 0>>
    /\ \E n \in ServerNames : connections[n] # None

\* C27: list_mcp_servers is all-or-nothing.  When a fetch has failed the
\* handler never returns a list: it throws the error of the first fetch that
\* failed.  When it returns, every fetch has succeeded and the result has
\* exactly one entry per configured provider, in configuration order, each
\* with its provider's configured name.
C27_AllOrNothing ==
    /\ (\E p \in Entries : fetches[p] = "failed") => listing # "ok"
    /\ listing = "pending" => listResult = NoResult
    /\ listing = "error" =>
          /\ listResult.kind = "error"
          /\ listResult.servers = <<>>
          /\ rejection \in Entries
          /\ fetches[rejection] = "failed"
          /\ listResult.error = <<"FetchError", rejection>>
    /\ listing = "ok" =>
          /\ listResult.kind = "ok"
          /\ \A p \in Entries : fetches[p] = "done"
          /\ Len(listResult.servers) = NumProviders
          /\ \A p \in Entries :
                /\ listResult.servers[p].name = EntryKey(p)
                /\ listResult.servers[p].version = ServerVersion(p).version

\* C27 witness: two fetches failed, others succeeded or are still running, and
\* the handler threw the error of the one that failed first, which is not the
\* first of them in configuration order.
C27_Witness ==
    /\ listing = "error"
    /\ listResult.error = <<"FetchError", rejection>>
    /\ \E p \in Entries : p < rejection /\ fetches[p] = "failed"
    /\ \E p \in Entries : fetches[p] = "done"
    /\ \E p \in Entries : fetches[p] = "running"
\* C28: when every client.connect, client.close and backoff timer completes,
\* every getClient, reconnect, close and closeAll call completes, whatever the
\* interleaving of the calls: no call of a method stays suspended for ever.
C28_EveryCallCompletes ==
    \A op \in {"getClient", "reconnect", "close", "closeAll"} :
        (\E r \in InFlight : r.op = op) ~> (\A r \in InFlight : r.op # op)

\* every call of the run has been made, a getClient call that found its record
\* being reconnected has waited and returned, a reconnect call has built a
\* record whose attempt has finished, and no call is suspended any more
C28_Witness ==
    /\ issued = MaxIssued
    /\ tasks = EmptyBag
    /\ ret.op = "getClient"
    /\ ret.seen = "reconnecting"
    /\ ret.result[1] = "client"
    /\ \E c \in Clients : conn[c].origin = "reconnect" /\ Settled(c)

====
